---- MODULE Spec2Model ----
(***************************************************************************)
(* Certificate anchoring on a ledger: the fingerprint deriver              *)
(* (lib/blockchain.ts), the store, verify and status routes, and the       *)
(* CertificateRegistry contract they talk to through ethers.               *)
(*                                                                         *)
(* Text is a sequence of one-character strings, so that serialisation,     *)
(* hashing and hex encoding are computed and not assumed.                  *)
(***************************************************************************)
EXTENDS Integers, Sequences, FiniteSets, TLC

(***************************************************************************)
(* Bounds of the model.                                                    *)
(***************************************************************************)
\* Hex digits of a digest (64 in the program; the digest is folded to this width).
HashHexLen == 6
\* Latest block timestamp the ledger stamps an entry with.
MaxTime == 2

(***************************************************************************)
(* JavaScript values of a request body.                                    *)
(***************************************************************************)
Undefined == [t |-> "undefined"]
Str(s) == [t |-> "string", s |-> s]
Num(n) == [t |-> "number", n |-> n]

\* JavaScript truthiness: undefined, the empty string and 0 are falsy; an object
\* is truthy.
Falsy(v) ==
    \/ v.t = "undefined"
    \/ v.t = "string" /\ v.s = <<>>
    \/ v.t = "number" /\ v.n = 0

\* An object is [t |-> "object", props |-> <<k1, v1>>, <<k2, v2>>, ...] in
\* insertion order, with distinct keys.
Obj(props) == [t |-> "object", props |-> props]

\* Property read o.k: the value under key k, undefined when there is none.
Get(o, k) ==
    IF \E i \in 1..Len(o.props) : o.props[i][1] = k
    THEN o.props[CHOOSE i \in 1..Len(o.props) : o.props[i][1] = k][2]
    ELSE Undefined

(***************************************************************************)
(* Characters.                                                             *)
(***************************************************************************)
CharCode ==
    "\"" :> 34 @@ "," :> 44 @@ "-" :> 45 @@ "0" :> 48 @@ "1" :> 49 @@
    "2" :> 50 @@ "3" :> 51 @@ "4" :> 52 @@ "5" :> 53 @@ "6" :> 54 @@
    "7" :> 55 @@ "8" :> 56 @@ "9" :> 57 @@ ":" :> 58 @@ "D" :> 68 @@
    "E" :> 69 @@ "I" :> 73 @@ "K" :> 75 @@ "N" :> 78 @@ "T" :> 84 @@
    "\\" :> 92 @@ "a" :> 97 @@ "b" :> 98 @@ "c" :> 99 @@ "d" :> 100 @@
    "e" :> 101 @@ "f" :> 102 @@ "g" :> 103 @@ "i" :> 105 @@ "m" :> 109 @@
    "n" :> 110 @@ "o" :> 111 @@ "p" :> 112 @@ "r" :> 114 @@ "s" :> 115 @@
    "t" :> 116 @@ "u" :> 117 @@ "y" :> 121 @@ "{" :> 123 @@ "}" :> 125

KeyChars ==
    [certificateNumber |->
        <<"c","e","r","t","i","f","i","c","a","t","e","N","u","m","b","e","r">>,
     recipientName |->
        <<"r","e","c","i","p","i","e","n","t","N","a","m","e">>,
     certificateType |->
        <<"c","e","r","t","i","f","i","c","a","t","e","T","y","p","e">>,
     issueDate |->
        <<"i","s","s","u","e","D","a","t","e">>,
     issuingEntityId |->
        <<"i","s","s","u","i","n","g","E","n","t","i","t","y","I","d">>,
     note |->
        <<"n","o","t","e">>]

\* The five properties generateCertificateHash reads, in the order it writes them.
HashedKeys ==
    <<"certificateNumber", "recipientName", "certificateType", "issueDate",
      "issuingEntityId">>

(***************************************************************************)
(* JSON.stringify of the object literal built by generateCertificateHash.  *)
(***************************************************************************)
DigitChars == <<"0", "1", "2", "3", "4", "5", "6", "7", "8", "9">>

RECURSIVE NatToString(_)
NatToString(n) ==
    IF n < 10 THEN <<DigitChars[n + 1]>>
    ELSE NatToString(n \div 10) \o <<DigitChars[(n % 10) + 1]>>

\* Number to text, base 10.
NumberToString(n) == IF n < 0 THEN <<"-">> \o NatToString(-n) ELSE NatToString(n)

\* JSON string literal: quotes around the text, with quote and backslash escaped.
RECURSIVE QuoteFrom(_, _)
QuoteFrom(s, i) ==
    IF i > Len(s) THEN <<>>
    ELSE (IF s[i] = "\"" \/ s[i] = "\\" THEN <<"\\", s[i]>> ELSE <<s[i]>>)
         \o QuoteFrom(s, i + 1)

Quote(s) == <<"\"">> \o QuoteFrom(s, 1) \o <<"\"">>

SerializeValue(v) ==
    IF v.t = "string" THEN Quote(v.s) ELSE NumberToString(v.n)

\* Properties whose value is undefined are left out of the text.
RECURSIVE SerializeProps(_, _, _)
SerializeProps(props, i, first) ==
    IF i > Len(props) THEN <<>>
    ELSE IF props[i][2].t = "undefined" THEN SerializeProps(props, i + 1, first)
    ELSE (IF first THEN <<>> ELSE <<",">>)
         \o Quote(KeyChars[props[i][1]]) \o <<":">> \o SerializeValue(props[i][2])
         \o SerializeProps(props, i + 1, FALSE)

JSONstringify(o) == <<"{">> \o SerializeProps(o.props, 1, TRUE) \o <<"}">>

(***************************************************************************)
(* ethers: toUtf8Bytes, keccak256 (as a hex string), ZeroHash.             *)
(***************************************************************************)
toUtf8Bytes(s) == [i \in 1..Len(s) |-> CharCode[s[i]]]

RECURSIVE Pow16(_)
Pow16(n) == IF n = 0 THEN 1 ELSE 16 * Pow16(n - 1)

HexLower ==
    <<"0", "1", "2", "3", "4", "5", "6", "7", "8", "9", "a", "b", "c", "d", "e", "f">>

\* Bytes32 value to its hex text: "0x" and HashHexLen lowercase digits.
RECURSIVE HexDigits(_, _)
HexDigits(n, len) ==
    IF len = 0 THEN <<>>
    ELSE HexDigits(n \div 16, len - 1) \o <<HexLower[(n % 16) + 1]>>

hexlify(n) == <<"0", "x">> \o HexDigits(n, HashHexLen)

\* The digest of a byte sequence, folded to HashHexLen hex digits. It stands for
\* Keccak-256 and, like it, absorbs the bytes block by block into one state;
\* DigestSeparates checks that it keeps the records of the model apart and never
\* yields the zero digest.
RECURSIVE AbsorbBlock(_, _, _, _)
AbsorbBlock(h, bytes, from, n) ==
    IF n = 0 THEN h
    ELSE (AbsorbBlock(h, bytes, from, n - 1) * 7 + bytes[from + n - 1])
         % Pow16(HashHexLen)

RECURSIVE Sponge(_, _)
Sponge(bytes, blocks) ==
    IF blocks = 0 THEN 1
    ELSE LET from == (blocks - 1) * 16 + 1
             rest == Len(bytes) - from + 1
             h == Sponge(bytes, blocks - 1)
         IN  \* the state before the block is computed first
             IF h >= 0
             THEN AbsorbBlock(h, bytes, from, IF rest < 16 THEN rest ELSE 16)
             ELSE h

keccak256(bytes) == hexlify(Sponge(bytes, (Len(bytes) + 15) \div 16))

ZeroHash == hexlify(0)

(***************************************************************************)
(* generateCertificateHash.                                                *)
(***************************************************************************)
\* A slip: issueDate is left out of the object that is hashed.
HashedObject_NoDate(certificateData) ==
    Obj([i \in 1..3 |-> <<HashedKeys[i], Get(certificateData, HashedKeys[i])>>]
        \o << <<"issuingEntityId", Get(certificateData, "issuingEntityId")>> >>)

\* The object literal of lines 58-64: the five properties in a fixed order.
HashedObject(certificateData) ==
    Obj([i \in 1..Len(HashedKeys) |->
            <<HashedKeys[i], Get(certificateData, HashedKeys[i])>>])

\* A slip: the input object itself is serialised.
generateCertificateHash_InputOrder(certificateData) ==
    keccak256(toUtf8Bytes(JSONstringify(certificateData)))

generateCertificateHash(certificateData) ==
    keccak256(toUtf8Bytes(JSONstringify(HashedObject(certificateData))))

(***************************************************************************)
(* Request inputs of the model.                                            *)
(***************************************************************************)
K1 == <<"K", "1">>
K2 == <<"K", "2">>
Keys == {K1, K2}

\* certificateNumber of a request body or query string: missing, empty, or a key.
CertificateNumbers == {Undefined, Str(<<>>), Str(K1), Str(K2)}

BaseProps ==
    << <<"certificateNumber", Str(K1)>>, <<"recipientName", Str(<<"a">>)>>,
       <<"certificateType", Str(<<"a">>)>>, <<"issueDate", Str(<<"a">>)>>,
       <<"issuingEntityId", Num(1)>> >>

\* The other value each field takes in the model.
OtherValue ==
    [certificateNumber |-> Str(K2), recipientName |-> Str(<<"b">>),
     certificateType |-> Str(<<"b">>), issueDate |-> Str(<<"b">>),
     issuingEntityId |-> Num(12)]

With(props, k, v) ==
    [i \in 1..Len(props) |-> IF props[i][1] = k THEN <<k, v>> ELSE props[i]]

Without(props, k) == SelectSeq(props, LAMBDA p : p[1] # k)

Reverse(props) == [i \in 1..Len(props) |-> props[Len(props) + 1 - i]]

FieldNames == {HashedKeys[i] : i \in 1..Len(HashedKeys)}

\* Records a request carries: the base record, the base record with one field
\* changed, with one field missing, with its fields reversed and one more field,
\* and the empty object.
RequestRecords ==
    {Obj(BaseProps)}
    \cup {Obj(With(BaseProps, k, OtherValue[k])) : k \in FieldNames}
    \cup {Obj(Without(BaseProps, "recipientName")),
          Obj(Reverse(BaseProps) \o << <<"note", Str(<<"a">>)>> >>),
          Obj(<<>>)}

\* certificateData of a verify request: missing, or any of the records.
CertificateDatas == {Undefined} \cup RequestRecords

\* certificateData of a store request: missing, or one of the records that
\* differ in more than the value of one field.
StoredDatas ==
    {Undefined, Obj(BaseProps), Obj(Without(BaseProps, "recipientName")),
     Obj(Reverse(BaseProps) \o << <<"note", Str(<<"a">>)>> >>), Obj(<<>>)}

\* generateCertificateHash of each record of the model, computed once.
HashOf == [cd \in RequestRecords |-> generateCertificateHash(cd)]

\* The five field values of a record, in the order of HashedKeys.
FieldValues(certificateData) ==
    [i \in 1..Len(HashedKeys) |-> Get(certificateData, HashedKeys[i])]

\* A record with all five fields: four strings and a number.
WellFormedRecord(certificateData) ==
    /\ certificateData.t = "object"
    /\ \A i \in 1..4 : Get(certificateData, HashedKeys[i]).t = "string"
    /\ Get(certificateData, "issuingEntityId").t = "number"

\* Messages of the errors the ledger client throws; "" is an error without one.
ErrorMessages == {"", "network error"}

(***************************************************************************)
(* State.                                                                  *)
(***************************************************************************)
VARIABLES
    ledger,     \* the contract's storage: key -> [hash, timestamp, issuer]
    anchored,   \* history: key -> the field values last written under it
    store,      \* the store route's request in flight
    verify,     \* the verify route's request in flight
    health,     \* the status route's request in flight
    derive,     \* inputs and results of generateCertificateHash alone
    compare     \* inputs and result of the verify route's comparison alone

vars == <<ledger, anchored, store, verify, health, derive, compare>>

(***************************************************************************)
(* The CertificateRegistry contract, as seen through its ABI.              *)
(***************************************************************************)
ZeroAddress == "0x0000"
SignerAddress == "0xsigner"

EmptyEntry == [hash |-> 0, timestamp |-> 0, issuer |-> ZeroAddress]
NoRecord == <<>>

\* storeCertificate(certificateNumber, certificateHash), mined in a block.
ContractStore(l, key, hash, time, sender) ==
    [l EXCEPT ![key] = [hash |-> hash, timestamp |-> time, issuer |-> sender]]

\* verifyCertificate(certificateNumber): (bytes32, uint256, address), decoded by
\* ethers: the bytes32 as lowercase hex text.
ContractVerify(l, key) ==
    [hash |-> hexlify(l[key].hash), timestamp |-> l[key].timestamp,
     issuer |-> l[key].issuer]

(***************************************************************************)
(* ethers' encoding of a bytes32 argument.                                 *)
(***************************************************************************)
HexValue ==
    "0" :> 0 @@ "1" :> 1 @@ "2" :> 2 @@ "3" :> 3 @@ "4" :> 4 @@ "5" :> 5 @@
    "6" :> 6 @@ "7" :> 7 @@ "8" :> 8 @@ "9" :> 9 @@ "a" :> 10 @@ "b" :> 11 @@
    "c" :> 12 @@ "d" :> 13 @@ "e" :> 14 @@ "f" :> 15 @@ "A" :> 10 @@
    "B" :> 11 @@ "C" :> 12 @@ "D" :> 13 @@ "E" :> 14 @@ "F" :> 15

IsBytes32Text(h) ==
    /\ Len(h) = 2 + HashHexLen
    /\ h[1] = "0" /\ h[2] = "x"
    /\ \A i \in 3..Len(h) : h[i] \in DOMAIN HexValue

RECURSIVE HexToNat(_, _, _)
HexToNat(h, i, acc) ==
    IF i > Len(h) THEN acc ELSE HexToNat(h, i + 1, acc * 16 + HexValue[h[i]])

\* The bytes of a bytes32 argument; the call throws when the text is not one.
EncodeBytes32(h) == HexToNat(h, 3, 0)

(***************************************************************************)
(* storeCertificateOnBlockchain and the store route.                       *)
(***************************************************************************)
\* error.message || fallback
ErrorText(message, fallback) == IF message = "" THEN fallback ELSE message

\* certificateHash.startsWith("0x") ? certificateHash : `0x${certificateHash}`
hashBytes32(certificateHash) ==
    IF Len(certificateHash) >= 2 /\ certificateHash[1] = "0" /\ certificateHash[2] = "x"
    THEN certificateHash
    ELSE <<"0", "x">> \o certificateHash

\* The value storeCertificateOnBlockchain returns from its try block.
StoreSucceeded(receiptHash) == [success |-> TRUE, transactionHash |-> receiptHash]

\* The value storeCertificateOnBlockchain returns from its catch block.
StoreFailed(message) ==
    [success |-> FALSE,
     error |-> ErrorText(message, "Failed to store certificate on blockchain")]

\* if (!certificateNumber || !certificateData)
StoreRouteRejects(certificateNumber, certificateData) ==
    Falsy(certificateNumber) \/ Falsy(certificateData)

NoResponse == [status |-> 0, body |-> [success |-> FALSE, message |-> ""]]

BadRequest ==
    [status |-> 400,
     body |-> [success |-> FALSE, message |-> "Certificate number and data are required"]]

\* The store route's response to the result of storeCertificateOnBlockchain.
StoreRouteResponse(result, certificateHash) ==
    IF ~result.success
    THEN [status |-> 500,
          body |-> [success |-> FALSE,
                    message |-> ErrorText(result.error, "Failed to store on blockchain")]]
    ELSE [status |-> 200,
          body |-> [success |-> TRUE,
                    message |-> "Certificate stored on blockchain successfully",
                    data |-> [certificateHash |-> certificateHash,
                              transactionHash |-> result.transactionHash]]]

TxHash == "0xtx"

IdleStore ==
    [pc |-> "idle", key |-> <<>>, hash |-> <<>>, rec |-> NoRecord,
     wellFormed |-> FALSE, submits |-> 0, txStatus |-> "none",
     confirmed |-> FALSE, err |-> "", resp |-> NoResponse]

\* The request ends: the catch block's result goes through the route.
StoreEndsFailed(s, message) ==
    [s EXCEPT !.pc = "done", !.err = message,
              !.resp = StoreRouteResponse(StoreFailed(message), s.hash)]

\* A retry loop: a rejected submit is submitted again.
AfterSubmitRejected_Retry(s, message) ==
    [s EXCEPT !.submits = s.submits + 1]

\* await contract.storeCertificate(...) rejects: the catch block.
AfterSubmitRejected(s, message) == StoreEndsFailed(s, message)

\* A slip: the transaction's hash is returned without waiting for the receipt.
AfterSubmitResolved_NoWait(s) ==
    [s EXCEPT !.pc = "done", !.txStatus = "pending",
              !.resp = StoreRouteResponse(StoreSucceeded(TxHash), s.hash)]

\* await contract.storeCertificate(...) resolves: the transaction is pending and
\* tx.wait() is awaited.
AfterSubmitResolved(s) == [s EXCEPT !.pc = "waiting", !.txStatus = "pending"]

\* POST with a missing or empty certificateNumber or no certificateData.
StoreInvalid(certificateNumber, certificateData) ==
    /\ store.pc = "idle"
    /\ StoreRouteRejects(certificateNumber, certificateData)
    /\ store' = [IdleStore EXCEPT !.pc = "done", !.resp = BadRequest]
    /\ UNCHANGED <<ledger, anchored, verify, health, derive, compare>>

\* The request as the route takes it on: the hash of the record and the inputs'
\* history.
StoreAccepted(certificateNumber, certificateData) ==
    [IdleStore EXCEPT
        !.key = certificateNumber.s,
        !.hash = HashOf[certificateData],
        !.rec = FieldValues(certificateData),
        !.wellFormed = WellFormedRecord(certificateData)]

\* POST, and getSigner() throws (new ethers.Wallet on a bad private key).
StoreSignerThrows(certificateNumber, certificateData, message) ==
    /\ store.pc = "idle"
    /\ ~StoreRouteRejects(certificateNumber, certificateData)
    /\ store' = StoreEndsFailed(StoreAccepted(certificateNumber, certificateData), message)
    /\ UNCHANGED <<ledger, anchored, verify, health, derive, compare>>

\* POST up to the call of contract.storeCertificate, which throws at once when
\* the hash is no bytes32.
StoreSubmit(certificateNumber, certificateData) ==
    /\ store.pc = "idle"
    /\ ~StoreRouteRejects(certificateNumber, certificateData)
    /\ LET s == StoreAccepted(certificateNumber, certificateData)
       IN  store' = IF IsBytes32Text(hashBytes32(s.hash))
                    THEN [s EXCEPT !.pc = "submitting", !.submits = s.submits + 1]
                    ELSE StoreEndsFailed(s, "invalid BytesLike value")
    /\ UNCHANGED <<ledger, anchored, verify, health, derive, compare>>

StoreSubmitRejected(message) ==
    /\ store.pc = "submitting"
    /\ store' = AfterSubmitRejected(store, message)
    /\ UNCHANGED <<ledger, anchored, verify, health, derive, compare>>

StoreSubmitResolved ==
    /\ store.pc = "submitting"
    /\ store' = AfterSubmitResolved(store)
    /\ UNCHANGED <<ledger, anchored, verify, health, derive, compare>>

\* The ledger mines the pending transaction in a block stamped time: the
\* contract writes the entry.
LedgerMine(time) ==
    /\ store.txStatus = "pending"
    /\ ledger' = ContractStore(ledger, store.key, EncodeBytes32(hashBytes32(store.hash)),
                               time, SignerAddress)
    /\ anchored' = [anchored EXCEPT ![store.key] = store.rec]
    /\ store' = [store EXCEPT !.txStatus = "mined"]
    /\ UNCHANGED <<verify, health, derive, compare>>

\* The ledger reverts or drops the pending transaction: nothing is written.
LedgerRevert ==
    /\ store.txStatus = "pending"
    /\ store' = [store EXCEPT !.txStatus = "reverted"]
    /\ UNCHANGED <<ledger, anchored, verify, health, derive, compare>>

\* await tx.wait() resolves with the receipt of the mined transaction.
StoreWaitResolved ==
    /\ store.pc = "waiting"
    /\ store.txStatus = "mined"
    /\ store' = [store EXCEPT !.pc = "done", !.confirmed = TRUE,
                              !.resp = StoreRouteResponse(StoreSucceeded(TxHash), store.hash)]
    /\ UNCHANGED <<ledger, anchored, verify, health, derive, compare>>

\* await tx.wait() rejects: the transaction reverted, or the wait itself failed
\* (a transaction still pending then is taken as dropped).
StoreWaitRejected(message) ==
    /\ store.pc = "waiting"
    /\ store' = StoreEndsFailed(
                    [store EXCEPT !.txStatus = IF @ = "pending" THEN "reverted" ELSE @],
                    message)
    /\ UNCHANGED <<ledger, anchored, verify, health, derive, compare>>

\* The response is sent; the route is ready for the next request.
StoreReturn ==
    /\ store.pc = "done"
    /\ store' = IdleStore
    /\ UNCHANGED <<ledger, anchored, verify, health, derive, compare>>

(***************************************************************************)
(* verifyCertificateOnBlockchain and the verify route (GET and POST).      *)
(***************************************************************************)
\* A slip: the test of the sentinel is inverted.
Verified_Inverted(hash) == hash = ZeroHash

\* const verified = hash !== ethers.ZeroHash
Verified(hash) == hash # ZeroHash

\* A slip: the sentinel is not tested and every reply counts as a record.
VerifySucceeded_AlwaysVerified(reply) ==
    [success |-> TRUE, verified |-> TRUE, blockchainHash |-> reply.hash,
     timestamp |-> reply.timestamp, issuer |-> reply.issuer]

\* The value verifyCertificateOnBlockchain returns from its try block; a property
\* set to undefined is left out.
VerifySucceeded(reply) ==
    IF Verified(reply.hash)
    THEN [success |-> TRUE, verified |-> TRUE, blockchainHash |-> reply.hash,
          timestamp |-> reply.timestamp, issuer |-> reply.issuer]
    ELSE [success |-> TRUE, verified |-> FALSE]

\* The value verifyCertificateOnBlockchain returns from its catch block.
VerifyFailed(message) ==
    [success |-> FALSE, verified |-> FALSE,
     error |-> ErrorText(message, "Failed to verify certificate on blockchain")]

\* A slip: the two hashes are compared for difference.
HashMatch_Negated(localHash, blockchainHash) == localHash # blockchainHash

\* const hashMatch = localHash === blockchainResult.blockchainHash
HashMatch(localHash, blockchainHash) == localHash = blockchainHash

GetBadRequest ==
    [status |-> 400,
     body |-> [success |-> FALSE, message |-> "Certificate number is required"]]

QueryFailedResponse(result) ==
    [status |-> 500,
     body |-> [success |-> FALSE,
               message |-> ErrorText(result.error, "Failed to verify on blockchain")]]

\* A slip: the failure of the query is not looked at.
VerifyGetResponse_IgnoresFailure(result) ==
    [status |-> 200,
     body |-> [success |-> TRUE,
               message |-> "Certificate not found on blockchain",
               data |-> [verified |-> result.verified]]]

\* The GET route's response to the result of verifyCertificateOnBlockchain.
VerifyGetResponse(result) ==
    IF ~result.success THEN QueryFailedResponse(result)
    ELSE [status |-> 200,
          body |-> [success |-> TRUE,
                    message |-> IF result.verified
                                THEN "Certificate verified on blockchain"
                                ELSE "Certificate not found on blockchain",
                    data |-> IF result.verified
                             THEN [verified |-> TRUE,
                                   blockchainHash |-> result.blockchainHash,
                                   timestamp |-> result.timestamp,
                                   issuer |-> result.issuer]
                             ELSE [verified |-> FALSE]]]

\* The POST route's response to the result of verifyCertificateOnBlockchain.
VerifyPostResponse(result, localHash) ==
    IF ~result.success THEN QueryFailedResponse(result)
    ELSE IF ~result.verified
    THEN [status |-> 200,
          body |-> [success |-> TRUE,
                    message |-> "Certificate not found on blockchain",
                    data |-> [verified |-> FALSE, hashMatch |-> FALSE]]]
    ELSE LET hashMatch == HashMatch(localHash, result.blockchainHash)
         IN  [status |-> 200,
              body |-> [success |-> TRUE,
                        message |-> IF hashMatch
                                    THEN "Certificate verified and hash matches"
                                    ELSE "Certificate found but hash mismatch",
                        data |-> [verified |-> result.verified,
                                  hashMatch |-> hashMatch,
                                  localHash |-> localHash,
                                  blockchainHash |-> result.blockchainHash,
                                  timestamp |-> result.timestamp,
                                  issuer |-> result.issuer]]]

VerifyRouteResponse(mode, result, localHash) ==
    IF mode = "GET" THEN VerifyGetResponse(result)
    ELSE VerifyPostResponse(result, localHash)

\* queried: "no" until the ledger answers, then "resolved" or "rejected";
\* entry and anchoredRec: what the ledger held under the key when it answered.
IdleVerify ==
    [pc |-> "idle", mode |-> "GET", key |-> <<>>, localHash |-> <<>>,
     rec |-> NoRecord, queried |-> "no", entry |-> EmptyEntry,
     anchoredRec |-> NoRecord, err |-> "", resp |-> NoResponse]

\* GET without a certificateNumber (searchParams.get gives null) or an empty one.
VerifyGetInvalid(certificateNumber) ==
    /\ verify.pc = "idle"
    /\ Falsy(certificateNumber)
    /\ verify' = [IdleVerify EXCEPT !.pc = "done", !.resp = GetBadRequest]
    /\ UNCHANGED <<ledger, anchored, store, health, derive, compare>>

\* GET up to the call of contract.verifyCertificate.
VerifyGetQuery(certificateNumber) ==
    /\ verify.pc = "idle"
    /\ ~Falsy(certificateNumber)
    /\ verify' = [IdleVerify EXCEPT !.pc = "querying", !.key = certificateNumber.s]
    /\ UNCHANGED <<ledger, anchored, store, health, derive, compare>>

\* POST with a missing or empty certificateNumber or no certificateData.
VerifyPostInvalid(certificateNumber, certificateData) ==
    /\ verify.pc = "idle"
    /\ Falsy(certificateNumber) \/ Falsy(certificateData)
    /\ verify' = [IdleVerify EXCEPT !.pc = "done", !.mode = "POST", !.resp = BadRequest]
    /\ UNCHANGED <<ledger, anchored, store, health, derive, compare>>

\* POST up to the call of contract.verifyCertificate: the local hash is derived.
VerifyPostQuery(certificateNumber, certificateData) ==
    /\ verify.pc = "idle"
    /\ ~(Falsy(certificateNumber) \/ Falsy(certificateData))
    /\ verify' = [IdleVerify EXCEPT
                    !.pc = "querying", !.mode = "POST", !.key = certificateNumber.s,
                    !.localHash = HashOf[certificateData],
                    !.rec = FieldValues(certificateData)]
    /\ UNCHANGED <<ledger, anchored, store, health, derive, compare>>

\* await contract.verifyCertificate(...) resolves with the ledger's entry.
QueryResolved ==
    /\ verify.pc = "querying"
    /\ verify' = [verify EXCEPT
                    !.pc = "done", !.queried = "resolved",
                    !.entry = ledger[verify.key],
                    !.anchoredRec = anchored[verify.key],
                    !.resp = VerifyRouteResponse(
                                 verify.mode,
                                 VerifySucceeded(ContractVerify(ledger, verify.key)),
                                 verify.localHash)]
    /\ UNCHANGED <<ledger, anchored, store, health, derive, compare>>

\* await contract.verifyCertificate(...) rejects: the catch block.
QueryRejected(message) ==
    /\ verify.pc = "querying"
    /\ verify' = [verify EXCEPT
                    !.pc = "done", !.queried = "rejected", !.err = message,
                    !.resp = VerifyRouteResponse(verify.mode, VerifyFailed(message),
                                                 verify.localHash)]
    /\ UNCHANGED <<ledger, anchored, store, health, derive, compare>>

VerifyReturn ==
    /\ verify.pc = "done"
    /\ verify' = IdleVerify
    /\ UNCHANGED <<ledger, anchored, store, health, derive, compare>>

(***************************************************************************)
(* The anchoring and verification service.                                 *)
(***************************************************************************)
IdleHealth == [pc |-> "idle"]
IdleDerive == [pc |-> "idle"]
IdleCompare == [pc |-> "idle"]

Init ==
    /\ ledger = [k \in Keys |-> EmptyEntry]
    /\ anchored = [k \in Keys |-> NoRecord]
    /\ store = IdleStore
    /\ verify = IdleVerify
    /\ health = IdleHealth
    /\ derive = IdleDerive
    /\ compare = IdleCompare

Next ==
    \/ \E cn \in CertificateNumbers, cd \in StoredDatas : StoreInvalid(cn, cd)
    \/ \E cn \in CertificateNumbers, cd \in StoredDatas, m \in ErrorMessages :
          StoreSignerThrows(cn, cd, m)
    \/ \E cn \in CertificateNumbers, cd \in StoredDatas : StoreSubmit(cn, cd)
    \/ \E m \in ErrorMessages : StoreSubmitRejected(m)
    \/ StoreSubmitResolved
    \/ \E time \in 1..MaxTime : LedgerMine(time)
    \/ LedgerRevert
    \/ StoreWaitResolved
    \/ \E m \in ErrorMessages : StoreWaitRejected(m)
    \/ StoreReturn
    \/ \E cn \in CertificateNumbers : VerifyGetInvalid(cn)
    \/ \E cn \in CertificateNumbers : VerifyGetQuery(cn)
    \/ \E cn \in CertificateNumbers, cd \in CertificateDatas : VerifyPostInvalid(cn, cd)
    \/ \E cn \in CertificateNumbers, cd \in CertificateDatas : VerifyPostQuery(cn, cd)
    \/ QueryResolved
    \/ \E m \in ErrorMessages : QueryRejected(m)
    \/ VerifyReturn

Spec == Init /\ [][Next]_vars

(***************************************************************************)
(* checkBlockchainConnection and the status route.                         *)
(***************************************************************************)
\* Highest block number the provider reports.
MaxBlock == 31

NetworkNames == {"sepolia", "mainnet", "unknown"}

\* The value checkBlockchainConnection returns from its try block.
CheckSucceeded(network, blockNumber) ==
    [connected |-> TRUE, network |-> network, blockNumber |-> blockNumber]

\* The value checkBlockchainConnection returns from its catch block.
CheckFailed(message) ==
    [connected |-> FALSE, error |-> ErrorText(message, "Failed to connect to blockchain")]

\* The status route's response: the status' properties, those undefined left out.
StatusRouteResponse(status) ==
    [status |-> 200,
     body |-> [success |-> status.connected,
               message |-> IF status.connected THEN "Blockchain connected"
                           ELSE "Blockchain connection failed",
               data |-> status]]

\* The status route's catch block.
InternalError(message) ==
    [status |-> 500,
     body |-> [success |-> FALSE, message |-> ErrorText(message, "Internal server error")]]

\* A slip: the failure of the probe is thrown on to the route.
HealthEndsFailed_Rethrows(h, step, message) ==
    [h EXCEPT !.pc = "done", !.failedStep = step, !.err = message,
              !.outcome = "threw", !.resp = InternalError(message)]

\* A step of the probe fails: the catch block's value goes through the route.
HealthEndsFailed(h, step, message) ==
    [h EXCEPT !.pc = "done", !.failedStep = step, !.err = message,
              !.outcome = "returned", !.result = CheckFailed(message),
              !.resp = StatusRouteResponse(CheckFailed(message))]

\* failedStep, err, network, blockNumber: what the probe's steps gave;
\* outcome: whether checkBlockchainConnection returned a value or threw.
StartedHealth ==
    [pc |-> "network", failedStep |-> "none", err |-> "", network |-> "",
     blockNumber |-> 0, outcome |-> "none", result |-> CheckFailed(""),
     resp |-> NoResponse]

\* GET, and getProvider() throws.
HealthProviderThrows(message) ==
    /\ health.pc = "idle"
    /\ health' = HealthEndsFailed(StartedHealth, "provider", message)
    /\ UNCHANGED <<ledger, anchored, store, verify, derive, compare>>

\* GET up to the call of provider.getNetwork().
HealthStart ==
    /\ health.pc = "idle"
    /\ health' = StartedHealth
    /\ UNCHANGED <<ledger, anchored, store, verify, derive, compare>>

\* await provider.getNetwork() resolves; provider.getBlockNumber() is called.
HealthNetworkResolved(name) ==
    /\ health.pc = "network"
    /\ health' = [health EXCEPT !.pc = "block", !.network = name]
    /\ UNCHANGED <<ledger, anchored, store, verify, derive, compare>>

HealthNetworkRejected(message) ==
    /\ health.pc = "network"
    /\ health' = HealthEndsFailed(health, "network", message)
    /\ UNCHANGED <<ledger, anchored, store, verify, derive, compare>>

\* await provider.getBlockNumber() resolves: the try block's value goes through
\* the route.
HealthBlockResolved(blockNumber) ==
    /\ health.pc = "block"
    /\ health' = [health EXCEPT
                    !.pc = "done", !.blockNumber = blockNumber, !.outcome = "returned",
                    !.result = CheckSucceeded(health.network, blockNumber),
                    !.resp = StatusRouteResponse(CheckSucceeded(health.network, blockNumber))]
    /\ UNCHANGED <<ledger, anchored, store, verify, derive, compare>>

HealthBlockRejected(message) ==
    /\ health.pc = "block"
    /\ health' = HealthEndsFailed(health, "block", message)
    /\ UNCHANGED <<ledger, anchored, store, verify, derive, compare>>

HealthReturn ==
    /\ health.pc = "done"
    /\ health' = IdleHealth
    /\ UNCHANGED <<ledger, anchored, store, verify, derive, compare>>

NextHealth ==
    \/ \E m \in ErrorMessages : HealthProviderThrows(m)
    \/ HealthStart
    \/ \E name \in NetworkNames : HealthNetworkResolved(name)
    \/ \E m \in ErrorMessages : HealthNetworkRejected(m)
    \/ \E n \in 0..MaxBlock : HealthBlockResolved(n)
    \/ \E m \in ErrorMessages : HealthBlockRejected(m)
    \/ HealthReturn

SpecHealth == Init /\ [][NextHealth]_vars

(***************************************************************************)
(* generateCertificateHash alone, on pairs of input objects.               *)
(***************************************************************************)
NoteProp == << <<"note", Str(<<"a">>)>> >>

\* Each record of the model as it is, with its fields reversed, and with one
\* more field before or after them.
DeriveObjects ==
    UNION {{o, Obj(Reverse(o.props)), Obj(NoteProp \o o.props),
            Obj(Reverse(o.props) \o NoteProp)} : o \in RequestRecords}

InitDerive ==
    /\ ledger = [k \in Keys |-> EmptyEntry]
    /\ anchored = [k \in Keys |-> NoRecord]
    /\ store = IdleStore
    /\ verify = IdleVerify
    /\ health = IdleHealth
    /\ compare = IdleCompare
    /\ derive \in {[pc |-> "input", a |-> a, b |-> b, hashA |-> <<>>, hashB |-> <<>>] :
                      a \in DeriveObjects, b \in DeriveObjects}

Derive ==
    /\ derive.pc = "input"
    /\ derive' = [derive EXCEPT !.pc = "done",
                                !.hashA = generateCertificateHash(derive.a),
                                !.hashB = generateCertificateHash(derive.b)]
    /\ UNCHANGED <<ledger, anchored, store, verify, health, compare>>

NextDerive == Derive

SpecDerive == InitDerive /\ [][NextDerive]_vars

(***************************************************************************)
(* The verify route's comparison alone, on a local record and a reply of   *)
(* the ledger client in any letter case.                                   *)
(***************************************************************************)
UpperOf ==
    "a" :> "A" @@ "b" :> "B" @@ "c" :> "C" @@ "d" :> "D" @@ "e" :> "E" @@ "f" :> "F"

LowerOf ==
    "A" :> "a" @@ "B" :> "b" @@ "C" :> "c" @@ "D" :> "d" @@ "E" :> "e" @@ "F" :> "f"

\* The hex text with its digits in upper case (the prefix stays "0x").
UpperHex(h) ==
    [i \in 1..Len(h) |-> IF i > 2 /\ h[i] \in DOMAIN UpperOf THEN UpperOf[h[i]] ELSE h[i]]

LowerHex(h) ==
    [i \in 1..Len(h) |-> IF i > 2 /\ h[i] \in DOMAIN LowerOf THEN LowerOf[h[i]] ELSE h[i]]

\* Two hex texts of the same bytes.
SameBytes(a, b) == LowerHex(a) = LowerHex(b)

\* Replies of verifyCertificate: the sentinel, and the hash of each record in
\* lower and in upper case.
ReplyHashes ==
    {ZeroHash} \cup {HashOf[cd] : cd \in RequestRecords}
    \cup {UpperHex(HashOf[cd]) : cd \in RequestRecords}

InitCompare ==
    /\ ledger = [k \in Keys |-> EmptyEntry]
    /\ anchored = [k \in Keys |-> NoRecord]
    /\ store = IdleStore
    /\ verify = IdleVerify
    /\ health = IdleHealth
    /\ derive = IdleDerive
    /\ compare \in {[pc |-> "input", localHash |-> HashOf[cd], hash |-> h,
                     timestamp |-> t, resp |-> NoResponse] :
                       cd \in RequestRecords, h \in ReplyHashes, t \in 1..MaxTime}

\* Lines 113-128 of blockchain.ts and 257-289 of the POST route on the reply.
Compare ==
    /\ compare.pc = "input"
    /\ compare' = [compare EXCEPT
                     !.pc = "done",
                     !.resp = VerifyPostResponse(
                                  VerifySucceeded([hash |-> compare.hash,
                                                   timestamp |-> compare.timestamp,
                                                   issuer |-> SignerAddress]),
                                  compare.localHash)]
    /\ UNCHANGED <<ledger, anchored, store, verify, health, derive>>

NextCompare == Compare

SpecCompare == InitCompare /\ [][NextCompare]_vars

(***************************************************************************)
(* Properties.                                                             *)
(***************************************************************************)
\* The verify route has answered a POST whose query the ledger answered.
PostAnswered ==
    verify.pc = "done" /\ verify.mode = "POST" /\ verify.queried = "resolved"

\* The response carries the verdict anchored-and-matches.
AnchoredAndMatches(resp) ==
    /\ resp.status = 200 /\ resp.body.success
    /\ resp.body.data.verified /\ resp.body.data.hashMatch
    /\ resp.body.data.localHash = resp.body.data.blockchainHash

\* The response carries the verdict anchored-but-mismatch.
AnchoredButMismatch(resp) ==
    /\ resp.status = 200 /\ resp.body.success
    /\ resp.body.data.verified /\ ~resp.body.data.hashMatch

\* The response carries the verdict not-anchored.
NotAnchored(resp) ==
    /\ resp.status = 200 /\ resp.body.success
    /\ ~resp.body.data.verified

\* The response is an error that carries the message of the error err, or the
\* fallback when err has none, and no data.
ErrorCarrying(resp, err, fallback) ==
    /\ resp.status = 500 /\ ~resp.body.success
    /\ "data" \notin DOMAIN resp.body
    /\ resp.body.message = IF err = "" THEN fallback ELSE err

\* C1: when record R was written under key K and K was not written since, a
\* verifyMatches(K, R) whose query succeeds answers anchored-and-matches, with
\* the local fingerprint equal to the ledger's.
RoundTripMatches ==
    (PostAnswered /\ verify.anchoredRec # NoRecord /\ verify.anchoredRec = verify.rec)
        => AnchoredAndMatches(verify.resp)

\* The store route answered success for (K, R) and the verify route then
\* answered a POST for (K, R).
RoundTripWitness ==
    /\ PostAnswered /\ verify.anchoredRec = verify.rec
    /\ store.pc = "done" /\ store.resp.status = 200
    /\ store.key = verify.key /\ store.rec = verify.rec
    /\ verify.resp.body.data.hashMatch

\* C2: when record R was written under key K, a verifyMatches(K, R') with R'
\* different from R in at least one of the five fields, whose query succeeds,
\* answers anchored-but-mismatch.
TamperDetected ==
    (PostAnswered /\ verify.anchoredRec # NoRecord /\ verify.anchoredRec # verify.rec)
        => AnchoredButMismatch(verify.resp)

\* A POST was answered for a record that differs from the anchored one in
\* issueDate alone.
TamperWitness ==
    /\ PostAnswered /\ verify.anchoredRec # NoRecord
    /\ verify.anchoredRec[4] # verify.rec[4]
    /\ \A i \in {1, 2, 3, 5} : verify.anchoredRec[i] = verify.rec[i]
    /\ ~verify.resp.body.data.hashMatch

\* C3: when the ledger answers the query with the all-zero sentinel, GET and
\* POST answer success with the verdict not-anchored, never an error.
AbsenceIsVerdict ==
    (verify.pc = "done" /\ verify.queried = "resolved" /\ verify.entry.hash = 0)
        => /\ NotAnchored(verify.resp)
           /\ verify.mode = "POST" => ~verify.resp.body.data.hashMatch

\* A POST for a key never written was answered, while the other key is anchored.
AbsenceWitness ==
    /\ PostAnswered /\ verify.entry.hash = 0 /\ anchored[verify.key] = NoRecord
    /\ \E k \in Keys : anchored[k] # NoRecord
    /\ ~verify.resp.body.data.verified

\* C4: when the ledger query fails, GET and POST answer an error that carries
\* the underlying message, never a verdict.
QueryFailureIsError ==
    (verify.pc = "done" /\ verify.queried = "rejected")
        => ErrorCarrying(verify.resp, verify.err, "Failed to verify certificate on blockchain")

\* A GET's query failed with a message, for a key that is anchored.
QueryFailureWitness ==
    /\ verify.pc = "done" /\ verify.queried = "rejected" /\ verify.mode = "GET"
    /\ verify.err # "" /\ anchored[verify.key] # NoRecord
    /\ verify.resp.status = 500

\* C5: a store request whose key is missing or empty, or whose record is missing
\* or lacks one of the five fields, is answered InvalidInput (400) and nothing is
\* submitted for it.
InvalidInputNotSubmitted ==
    (store.pc # "idle" /\ ~store.wellFormed)
        => store.resp.status = 400 /\ store.submits = 0

\* C6: a store request submits at most once, whatever the ledger client answers.
AtMostOneSubmit == store.submits <= 1

\* The submit of a store request was rejected and the request ended with it.
SubmitFailedWitness ==
    /\ store.pc = "done" /\ store.resp.status = 500
    /\ store.submits = 1 /\ store.txStatus = "none"

\* C7: the store route answers success, with a transaction reference, only when
\* the wait for the receipt has resolved on a mined transaction; a request that
\* got past validation and was not confirmed is answered an error that carries
\* the underlying message and no transaction reference.
ReceiptOnlyWhenConfirmed ==
    store.pc = "done" =>
        /\ store.resp.status = 200 =>
              /\ store.confirmed /\ store.txStatus = "mined"
              /\ store.resp.body.data.transactionHash = TxHash
              /\ store.resp.body.data.certificateHash = store.hash
        /\ (store.resp.status # 400 /\ ~store.confirmed) =>
              ErrorCarrying(store.resp, store.err,
                            "Failed to store certificate on blockchain")

\* The submit was accepted and mined, and the wait for the receipt failed.
WaitFailedWitness ==
    /\ store.pc = "done" /\ store.txStatus = "mined" /\ ~store.confirmed
    /\ store.resp.status = 500

\* C8: the health check returns a value whatever the probe does: connected is
\* false, with an error description, when a step of the probe fails, and true,
\* with the network and height the probe gave, only when all steps succeed.
HealthNeverFails ==
    health.pc = "done" =>
        /\ health.outcome = "returned"
        /\ health.resp.status = 200
        /\ health.resp.body.data = health.result
        /\ health.result.connected <=> health.failedStep = "none"
        /\ health.failedStep # "none" =>
              /\ DOMAIN health.result = {"connected", "error"}
              /\ health.result.error =
                    IF health.err = "" THEN "Failed to connect to blockchain"
                    ELSE health.err
        /\ health.failedStep = "none" =>
              /\ DOMAIN health.result = {"connected", "network", "blockNumber"}
              /\ health.result.network = health.network
              /\ health.result.blockNumber = health.blockNumber

\* The height call failed after the network call succeeded.
HealthWitness ==
    /\ health.pc = "done" /\ health.failedStep = "block"
    /\ ~health.result.connected

\* C9: two input objects with the same values of the five fields get the same
\* fingerprint, whatever the order of their fields and whatever else they hold.
FingerprintDeterminism ==
    (derive.pc = "done" /\ FieldValues(derive.a) = FieldValues(derive.b))
        => derive.hashA = derive.hashB

\* Two objects with all five fields, in different orders and one with one more
\* field, were hashed.
DeterminismWitness ==
    /\ derive.pc = "done"
    /\ FieldValues(derive.a) = FieldValues(derive.b)
    /\ WellFormedRecord(derive.a)
    /\ derive.a.props[1] # derive.b.props[1]
    /\ Len(derive.a.props) # Len(derive.b.props)

\* The digest keeps the records of the model apart and is never the sentinel.
DigestSeparates ==
    derive.pc = "done" =>
        /\ derive.hashA # ZeroHash
        /\ FieldValues(derive.a) # FieldValues(derive.b) => derive.hashA # derive.hashB

GetAnswered ==
    verify.pc = "done" /\ verify.mode = "GET" /\ verify.queried = "resolved"

\* C11: on a GET whose query succeeds, verified is true exactly when the
\* ledger's fingerprint under the key is not the all-zero sentinel; the
\* fingerprint, timestamp and issuer are returned, equal to the ledger's, when
\* verified is true, and all three are absent when it is false.
VerifyExistsShape ==
    GetAnswered =>
        LET data == verify.resp.body.data
        IN  /\ verify.resp.status = 200 /\ verify.resp.body.success
            /\ data.verified <=> verify.entry.hash # 0
            /\ data.verified =>
                  /\ DOMAIN data = {"verified", "blockchainHash", "timestamp", "issuer"}
                  /\ data.blockchainHash = hexlify(verify.entry.hash)
                  /\ data.timestamp = verify.entry.timestamp
                  /\ data.issuer = verify.entry.issuer
            /\ ~data.verified => DOMAIN data = {"verified"}

\* A GET was answered for a key anchored in the latest block, while the other
\* key is not anchored.
VerifyExistsWitness ==
    /\ GetAnswered /\ verify.entry.hash # 0
    /\ verify.entry.timestamp = MaxTime
    /\ \E k \in Keys : ledger[k] = EmptyEntry
    /\ verify.resp.body.data.verified

====
